---- MODULE Spec2Model ----
(***************************************************************************)
(* Model of src/src/translation.rs: the dependency-ordered translation     *)
(* engine (worklist schedulers translate_types / translate_variables /     *)
(* translate_functions over the shared TranslatorInner) and the repair     *)
(* loop of a FixContext (fix_by_suggestions / fix_by_compiler /            *)
(* fix_by_llm).  The LLM client and the compiler wrapper are external:     *)
(* every answer they give is a nondeterministic choice from a small set.   *)
(***************************************************************************)
EXTENDS Integers, Sequences, FiniteSets, TLC

\* ------------------------------------------------------------------------
\* Bounds of the model
\* ------------------------------------------------------------------------
\* Total number of C declarations (types + variables + functions) of a program.
MaxNodes == 2

\* ------------------------------------------------------------------------
\* The program under translation (fields of Translator set by Translator::new)
\* ------------------------------------------------------------------------
Kinds == {"type", "variable", "function"}

VARIABLES
    type_graph,            \* SCC DAG of the types: id -> ids it depends on
    variable_graph,        \* SCC DAG of the variables
    function_graph,        \* SCC DAG of the functions
    struct_alias,          \* typedef id -> aliased struct id (0: not an alias)
    translated_type_names, \* TranslatorInner
    translated_term_names,
    translated_types,
    translated_variables,
    translated_functions,
    uses,
    phase,                 \* which scheduler the driver is running
    sched_pc,              \* "loop": at the head of the loop; "select": awaiting
    graph,                 \* the scheduler's working copy of the graph
    futures,               \* the scheduler's in-flight tasks: id -> task state
    panicked,              \* an assertion failed / unwrap on None: the run aborted
    commit_order,          \* history: <<kind, id>> of every insert, in order
    spawn_count,           \* history: <<kind, id>> -> number of tasks spawned
    ctxt,                  \* the FixContext that fix_by_llm repairs
    cand,                  \* new_ctxt: the candidate of the LLM reply in hand
    round,                 \* locals of one round of fix_by_llm's loop
    failed,                \* fix_by_llm's local set of failed messages
    fix_pc,                \* position inside FixContext::new / fix_by_llm
    fix_log,               \* history of the repair
    type_items,            \* translate_type: translated.items after the repair
    derive_pc,             \* position in the tail of translate_type
    derive_rounds,         \* history: item -> rounds in which it lost derives
    derive_clean,          \* history: the last check_derive found no error
    config,                \* Translator::config
    translation,           \* the TranslationResult a translator is filling in
    custom_types,          \* Translator: the C nominal types of the program
    variables,             \* Translator: the C global variables (the keys)
    functions,             \* Translator: the C functions (the keys)
    new_type_names,        \* Translator: C type -> target name
    new_term_names,        \* Translator: C identifier -> target name
    names_pc,              \* position inside translate_names
    proposed,              \* history: the names the LLM answered
    func_params,           \* translate_function: func.params of the C function
    sigs,                  \* the answer of translate_signature
    sig_map,               \* normalized_signature_ty -> normalized_signature
    candidates,            \* the candidates still to be popped, next one first
    best_cand,             \* the current winner of the tournament
    sig_pc,                \* position inside translate_function
    sig_log,               \* history: try_signature calls, compare calls
    protected_names,       \* FixContext::names of the context under repair
    parsed_fix,            \* history: the items of the LLM's fix as parsed
    fixed_items,           \* fixed_items of one fix future, by name
    reply_pc,              \* position inside the fix future
    var_id,                \* translate_variable: the variable it translates
    var_local,             \* its locals signature_only and items
    var_pc,                \* position inside translate_variable
    var_calls,             \* history: the translate_variable calls of the client
    var_result             \* the TranslationResult it returns

program == <<type_graph, variable_graph, function_graph, struct_alias>>
inner == <<translated_type_names, translated_term_names, translated_types,
           translated_variables, translated_functions, uses>>
sched == <<phase, sched_pc, graph, futures, panicked, commit_order, spawn_count>>
fixv == <<ctxt, cand, round, failed, fix_pc, fix_log>>
derivev == <<type_items, derive_pc, derive_rounds, derive_clean>>
wrapv == <<config, translation>>
namev == <<custom_types, variables, functions, new_type_names, new_term_names,
           names_pc, proposed>>
sigv == <<func_params, sigs, sig_map, candidates, best_cand, sig_pc, sig_log>>
replyv == <<protected_names, parsed_fix, fixed_items, reply_pc>>
varv == <<var_id, var_local, var_pc, var_calls, var_result>>
more == <<namev, sigv, replyv, varv>>
ext == <<derivev, wrapv, more>>
vars == <<program, inner, sched, fixv, ext>>

\* ------------------------------------------------------------------------
\* Dependency graphs.  graph::compute_sccs yields the condensation of the
\* dependency graph: a DAG over its own keys.  Every SCC is a singleton
\* (the schedulers assert it), so an SCC id also stands for its member.
\* ------------------------------------------------------------------------
RECURSIVE Peel(_, _)
Peel(g, rest) ==
    IF rest = {} THEN TRUE
    ELSE LET free == {n \in rest : g[n] \cap rest = {}}
         IN  free # {} /\ Peel(g, rest \ free)

IsDag(g) == Peel(g, DOMAIN g)

Dags(n) == {g \in [1..n -> SUBSET (1..n)] : IsDag(g)}

Sizes == {s \in [Kinds -> 0..MaxNodes] :
            s["type"] + s["variable"] + s["function"] <= MaxNodes}

\* A typedef with is_struct_alias has the aliased struct as its only
\* dependency (deps[0]); the struct is not itself an alias.
Aliases(g) ==
    {a \in [DOMAIN g -> {0} \cup DOMAIN g] :
        \A n \in DOMAIN g :
            a[n] # 0 => (g[n] = {a[n]} /\ a[a[n]] = 0)}

GraphOf(k) ==
    CASE k = "type" -> type_graph
      [] k = "variable" -> variable_graph
      [] k = "function" -> function_graph

StoreOf(k) ==
    CASE k = "type" -> translated_types
      [] k = "variable" -> translated_variables
      [] k = "function" -> translated_functions

\* ------------------------------------------------------------------------
\* Names and items
\* ------------------------------------------------------------------------
TypeNames == <<"T1", "T2", "T3", "T4", "T5", "T6">>
VarNames == <<"v1", "v2", "v3", "v4", "v5", "v6">>
FuncNames == <<"f1", "f2", "f3", "f4", "f5", "f6">>

\* new_type_names / new_term_names: the target name of a declaration.
NewName(k, n) ==
    CASE k = "type" -> TypeNames[n]
      [] k = "variable" -> VarNames[n]
      [] k = "function" -> FuncNames[n]

SortOf(k) ==
    CASE k = "type" -> "Type"
      [] k = "variable" -> "Variable"
      [] k = "function" -> "Function"

\* The item the translation of declaration n of kind k has to define.
MainItem(k, n) == [name |-> NewName(k, n), sort |-> SortOf(k)]

HelperItem == [name |-> "Helper", sort |-> "Type"]
UseItem == [name |-> "use std::mem::swap;", sort |-> "Use"]
BadUseItem == [name |-> "use helpers::X;", sort |-> "Use"]

\* ------------------------------------------------------------------------
\* Import lines
\* ------------------------------------------------------------------------
ExternLines == {"extern crate libc;", "extern crate once_cell;"}
\* Import hints the compiler may give (TypeCheckingResult.uses).
HintLines == {"use helpers::X;"}
\* BTreeSet<String> iterates in ascending byte order.
LineOrder == <<"extern crate libc;", "extern crate once_cell;",
               "use helpers::X;", "use std::mem::swap;">>

InSet(S) == LET In(x) == x \in S IN SelectSeq(LineOrder, In)

\* A translator whose inner.uses would start empty.
NoInitialUses == {}

\* Translator::new: inner.uses starts with the two extern crate lines.
InitialUses == ExternLines

\* ------------------------------------------------------------------------
\* The compiler wrapper (crate::compiler) and its verdicts
\* ------------------------------------------------------------------------
\* Lines for which type_check(line + "\nfn main() {}") passes.
PassingLines == ExternLines \cup {"use std::mem::swap;"}

ProbePasses(line) == line \in PassingLines

\* ------------------------------------------------------------------------
\* TranslationResult
\* ------------------------------------------------------------------------
\* The fields the schedulers, the writer section and code() read.  The
\* error count and signature_only are set by the translators and read by
\* none of them.
TranslationResult(items, us, copied) ==
    [items |-> items, uses |-> us, copied |-> copied]

ItemNames(items) == {items[i].name : i \in DOMAIN items}

\* TranslationResult::code: the items' code joined; an item's code is
\* represented by its name.
ResultCode(r) == [i \in DOMAIN r.items |-> r.items[i].name]

\* ------------------------------------------------------------------------
\* Helpers of a translation task
\* ------------------------------------------------------------------------
\* dedup_and_check, the retain: items whose name is already translated go.
DedupAndCheck(items) ==
    LET Keep(i) == IF i.sort = "Type"
                   THEN i.name \notin translated_type_names
                   ELSE i.name \notin translated_term_names
    IN  SelectSeq(items, Keep)

\* dedup_and_check, the assertion: the item asked for is still there.
DedupAssert(items, new_name) == new_name \in ItemNames(items)

\* take_uses, the value it returns: the probed `use` lines.
TakeUses(items) ==
    {items[i].name : i \in {j \in DOMAIN items :
        items[j].sort = "Use" /\ ProbePasses(items[j].name)}}

\* take_uses, what it leaves in `items`: drain_filter removes every Use item.
DrainUses(items) ==
    LET NotUse(i) == i.sort # "Use" IN SelectSeq(items, NotUse)

\* FixContext::add_uses::get_name: the identifier after the last "::".
GetName(line) ==
    CASE line = "use helpers::X;" -> "X"
      [] line = "use other::X;" -> "X"
      [] line = "use std::mem::swap;" -> "swap"
      [] OTHER -> "None"

EndsWithStar(line) == FALSE
ContainsBrace(line) == FALSE

\* FixContext::add_uses, the set it leaves in self.uses.
AddUses(us, hints) ==
    LET names == {GetName(u) : u \in us} \ {"None"}
    IN  us \cup {u \in hints :
            ~(EndsWithStar(u) \/ ContainsBrace(u) \/ GetName(u) \in names)}

\* What the LLM may answer when asked to translate declaration n of kind k:
\* the item asked for, alone or with another item (a helper type that was
\* not asked for, a `use` line), or an answer without the item asked for.
LlmReplies(k, n) ==
    {<<MainItem(k, n)>>, <<MainItem(k, n), HelperItem>>,
     <<UseItem, MainItem(k, n)>>, <<BadUseItem, MainItem(k, n)>>,
     <<HelperItem>>}

\* ------------------------------------------------------------------------
\* The emitted program: Translator::mk_code / code
\* ------------------------------------------------------------------------
\* BTreeMap::values(): the values in ascending order of their keys.  A
\* store's key is the declaration itself (the CustomType, the C name of the
\* variable or function); the order of the ids stands for the Ord of the
\* keys, which owes nothing to the order of the inserts.
RECURSIVE Values(_)
Values(store) ==
    IF DOMAIN store = {} THEN <<>>
    ELSE LET least == CHOOSE n \in DOMAIN store :
                          \A m \in DOMAIN store : n <= m
         IN  <<store[least]>> \o
             Values([x \in DOMAIN store \ {least} |-> store[x]])

\* A filter that would let copied results through.
KeepsCopied(r) == TRUE

\* .filter(|r| !r.copied)
NotCopied(r) == ~r.copied

\* The program text as the sequence of the pieces that mk_code joins with
\* "\n": each piece is a sequence of lines (a use line, the code of the
\* items of one result, the entry point).
MkCode(types, vs, fs, us) ==
    LET results == SelectSeq(Values(types) \o Values(vs)
                                \o Values(fs), NotCopied)
        lines == InSet(us)
    IN  [i \in DOMAIN lines |-> <<lines[i]>>]
            \o [i \in DOMAIN results |-> ResultCode(results[i])]
            \o << <<"fn main() {}">> >>

Code == MkCode(translated_types, translated_variables, translated_functions,
               uses)

\* A capture that would give every task the prefix of the empty state.
InitialCode == MkCode(<<>>, <<>>, <<>>, InitialUses)

\* let checking_prefix = self.checking_code(): the program text of the
\* translation state at the moment of the call.
CheckingCode == Code

\* ------------------------------------------------------------------------
\* The worklist schedulers: translate_types, translate_variables and
\* translate_functions are the same loop over their own graph and store.
\* ------------------------------------------------------------------------
NextPhase(k) ==
    CASE k = "type" -> "variable"
      [] k = "variable" -> "function"
      [] k = "function" -> "finished"

\* A drain that would also take a node with one dependency left.
DrainedEarly(g) == {id \in DOMAIN g : Cardinality(g[id]) <= 1}

\* A drain that would take every node still in the graph.
DrainedAll(g) == DOMAIN g

\* graph.drain_filter(|_, s| s.is_empty()): the ids it takes out.
Drained(g) == {id \in DOMAIN g : g[id] = {}}

\* A drain that would leave the drained nodes in the graph.
NothingRemoved(g) == g

\* graph.drain_filter(..): what it leaves in the graph.
Remaining(g) == [id \in DOMAIN g \ Drained(g) |-> g[id]]

\* A writer section that would not take the finished id out of the graph.
IdNotRemoved(g, id) == g

\* for ids in graph.values_mut() { ids.remove(id) }
RemoveId(g, id) == [x \in DOMAIN g |-> g[x] \ {id}]

\* A task: its position, the items of its candidate, the checking prefix
\* it holds (none before it takes one) and, as history, the program text
\* at the moment it was spawned.
NewTask == [pc |-> "created", items |-> <<>>, prefix |-> <<>>, launched |-> <<>>]

\* Head of the loop: spawn one task per drained SCC, then await one of them.
Spawn ==
    /\ phase \in Kinds /\ sched_pc = "loop" /\ ~panicked
    /\ Drained(graph) \cup DOMAIN futures # {}
    /\ graph' = Remaining(graph)
    /\ futures' = [n \in DOMAIN futures \cup Drained(graph) |->
                      IF n \in DOMAIN futures THEN futures[n]
                      ELSE [NewTask EXCEPT !.launched = Code]]
    /\ spawn_count' = [spawn_count EXCEPT ![phase] =
                          [n \in DOMAIN @ |->
                              IF n \in Drained(graph) THEN @[n] + 1 ELSE @[n]]]
    /\ sched_pc' = "select"
    /\ UNCHANGED <<program, inner, phase, panicked, commit_order, fixv, ext>>

\* Head of the loop with nothing to spawn and nothing in flight: break.  The
\* driver then runs the scheduler of the next kind on a copy of its graph.
Return ==
    /\ phase \in Kinds /\ sched_pc = "loop" /\ ~panicked
    /\ Drained(graph) \cup DOMAIN futures = {}
    /\ phase' = NextPhase(phase)
    /\ graph' = IF phase' \in Kinds THEN GraphOf(phase') ELSE graph
    /\ UNCHANGED <<program, inner, sched_pc, futures, panicked, commit_order,
                   spawn_count, fixv, ext>>

\* The writer section after select_all: the finished id leaves every
\* successor set, the items' names, the uses and the result are inserted.
\* An insert that would put every item's name into both name sets.
InsertAllNames(names, items, type_sort) == names \cup ItemNames(items)

\* The insert into translated_type_names (type_sort) or translated_term_names.
InsertNames(names, items, type_sort) ==
    names \cup {items[i].name : i \in {j \in DOMAIN items :
                                  (items[j].sort = "Type") = type_sort}}

\* A writer section that would leave the result out of the store.
NotInserted(store, n, translated) == store

InsertResult(store, n, translated) ==
    [x \in DOMAIN store \cup {n} |-> IF x = n THEN translated ELSE store[x]]

Commit(n, translated) ==
    /\ graph' = RemoveId(graph, n)
    /\ futures' = [x \in DOMAIN futures \ {n} |-> futures[x]]
    /\ translated_type_names' =
           InsertNames(translated_type_names, translated.items, TRUE)
    /\ translated_term_names' =
           InsertNames(translated_term_names, translated.items, FALSE)
    /\ uses' = uses \cup translated.uses
    /\ translated_types' =
           IF phase = "type" THEN InsertResult(translated_types, n, translated)
           ELSE translated_types
    /\ translated_variables' =
           IF phase = "variable"
           THEN InsertResult(translated_variables, n, translated)
           ELSE translated_variables
    /\ translated_functions' =
           IF phase = "function"
           THEN InsertResult(translated_functions, n, translated)
           ELSE translated_functions
    /\ commit_order' = Append(commit_order, <<phase, n>>)
    /\ sched_pc' = "loop"

\* A translate_typedef for which no typedef would count as a struct alias.
NeverAlias(n) == FALSE

\* typedef.is_struct_alias
IsAlias(n) == phase = "type" /\ struct_alias[n] # 0

\* translate_typedef of a struct alias: the aliased result is cloned with
\* copied = true.  Nothing is awaited, so the task finishes in its first poll
\* and select_all hands it to the writer section at once.
CopyAlias(n) ==
    /\ sched_pc = "select" /\ ~panicked
    /\ n \in DOMAIN futures /\ futures[n].pc = "created"
    /\ IsAlias(n)
    /\ Commit(n, [translated_types[struct_alias[n]] EXCEPT !.copied = TRUE])
    /\ UNCHANGED <<program, phase, panicked, spawn_count, fixv, ext>>

\* translate_function: the answer of translate_signature arrives; the
\* task takes its checking prefix and goes on to await the translations
\* of try_signature.
Signature(n) ==
    /\ sched_pc = "select" /\ ~panicked
    /\ phase = "function"
    /\ n \in DOMAIN futures /\ futures[n].pc = "created"
    /\ futures' = [futures EXCEPT ![n] =
                      [@ EXCEPT !.pc = "signed", !.prefix = CheckingCode]]
    /\ UNCHANGED <<program, inner, phase, sched_pc, graph, panicked,
                   commit_order, spawn_count, fixv, ext>>

\* The position at which a task of kind k awaits the LLM's translation.
AwaitsTranslation(k) == IF k = "function" THEN "signed" ELSE "created"

\* The LLM's translation arrives: parse, dedup_and_check, take_uses; a
\* type or a variable takes its checking prefix here (a function has it
\* since Signature).  The task then goes on to the repair of its
\* candidate, where it awaits the LLM again (fix_by_llm, compare).
Translate(n) ==
    /\ sched_pc = "select" /\ ~panicked
    /\ n \in DOMAIN futures /\ futures[n].pc = AwaitsTranslation(phase)
    /\ ~IsAlias(n)
    /\ \E reply \in LlmReplies(phase, n) :
          LET items == DedupAndCheck(reply)
          IN  IF DedupAssert(items, NewName(phase, n))
              THEN /\ futures' = [futures EXCEPT ![n] =
                          [@ EXCEPT !.pc = "repairing",
                                    !.items = DrainUses(items),
                                    !.prefix = IF phase = "function"
                                               THEN @ ELSE CheckingCode]]
                   /\ UNCHANGED panicked
              ELSE /\ panicked' = TRUE
                   /\ UNCHANGED futures
    /\ UNCHANGED <<program, inner, phase, sched_pc, graph, commit_order,
                   spawn_count, fixv, ext>>

\* The task returns its result and select_all hands it to the writer
\* section.  The uses are those the repair accepted from the compiler's
\* hints (the result starts with none); a type must have passed.
Finish(n) ==
    /\ sched_pc = "select" /\ ~panicked
    /\ n \in DOMAIN futures /\ futures[n].pc = "repairing"
    /\ \E hints \in SUBSET HintLines :
          Commit(n, TranslationResult(futures[n].items, AddUses({}, hints),
                                      FALSE))
    /\ UNCHANGED <<program, phase, panicked, spawn_count, fixv, ext>>

\* translate_type: assert!(ctxt.result.as_ref().unwrap().passed()) fails.
TypeNotPassed(n) ==
    /\ sched_pc = "select" /\ ~panicked
    /\ phase = "type"
    /\ n \in DOMAIN futures /\ futures[n].pc = "repairing"
    /\ panicked' = TRUE
    /\ UNCHANGED <<program, inner, phase, sched_pc, graph, futures,
                   commit_order, spawn_count, fixv, ext>>

\* ------------------------------------------------------------------------
\* The repair loop: FixContext and fix_by_suggestions / fix_by_compiler /
\* fix_by_llm
\* ------------------------------------------------------------------------
\* Largest number of diagnostics in one TypeCheckingResult.
MaxErrs == 2

\* The candidate code: the LLM's translation and what a fix may turn it into.
Codes == {"c0", "c1"}

\* The prefix a FixContext is checked against: checking_code() of the
\* translation state when the task took it (here the initial state).
CheckingPrefix == MkCode(<<>>, <<>>, <<>>, InitialUses)

\* Number of lines of the prefix string (one line per piece line).
PrefixStringLines == Len(CheckingPrefix)

\* Import hints of the compiler during a repair.
FixHints == {"use helpers::X;", "use other::X;"}

Messages == {"E1", "E2"}

MsgRank(m) == IF m = "E1" THEN 1 ELSE 2

\* Diagnostics the compiler may report: on the last line of the prefix, on
\* the line after it, on the line after that.
Diagnostics ==
    {[line |-> PrefixStringLines, message |-> "E1"],
     [line |-> PrefixStringLines + 1, message |-> "E1"],
     [line |-> PrefixStringLines + 2, message |-> "E2"]}

NoneResult == [some |-> FALSE, errors |-> {}, uses |-> {}, suggestions |-> "none"]

ErrorSets == {d \in SUBSET Diagnostics : Cardinality(d) <= MaxErrs}

\* What compiler::type_check may return: None, or errors, import hints and
\* suggestions (none, some in the code under repair, some in the prefix).
\* The hints are read only once no suggestion is left, and nothing but the
\* suggestions is read of a result whose suggestions touch the prefix, so
\* one answer stands for all that differ in what is never read.
TypeCheckOutcomes ==
    {NoneResult}
    \cup {[some |-> TRUE, errors |-> e, uses |-> h, suggestions |-> "none"] :
            e \in ErrorSets, h \in SUBSET FixHints}
    \cup {[some |-> TRUE, errors |-> e, uses |-> {}, suggestions |-> "code"] :
            e \in ErrorSets}
    \cup {[some |-> TRUE, errors |-> {}, uses |-> {}, suggestions |-> "prefix"]}

NoCtxt == [uses |-> {}, code |-> "none", result |-> NoneResult]
\* counts is history: new_errors of every result of the round so far.
NoRound == [current_errors |-> 0, todo |-> {}, failures |-> {}, msg |-> "none",
            best |-> NoCtxt, best_msg |-> "none", counts |-> {}]
NoLog == [rounds |-> 0, entry_errors |-> 0, prefix_diag |-> FALSE,
          first |-> "none"]

\* Config; the repair reads fix_errors only.
Configs ==
    {[try_multiple_signatures |-> TRUE, provide_signatures |-> TRUE,
      fix_errors |-> b] : b \in BOOLEAN}

DefaultConfig ==
    [try_multiple_signatures |-> TRUE, provide_signatures |-> TRUE,
     fix_errors |-> TRUE]

\* translated.uses and translated.errors before the repair sets them.
NoTranslated == [uses |-> {}, errors |-> 0]

\* No translator is filling in a result.
WrapIdle == config = DefaultConfig /\ translation = NoTranslated

\* FixContext::prefix_lines: the lines of uses_str() followed, without a
\* separator, by the prefix.  uses_str() is the uses joined by "\n": as many
\* lines as uses, one (empty) line when there is none.
UsesStrLines(c) == IF c.uses = {} THEN 1 ELSE Cardinality(c.uses)

PrefixLines(c) == UsesStrLines(c) + PrefixStringLines - 1

\* A check without the assertion.
AssertSkipped(c, out) == TRUE

\* FixContext::check, the assertion: every error lies after the prefix.
CheckAssert(c, out) ==
    out.some => \A e \in out.errors : e.line > PrefixLines(c)

\* FixContext::check on context c with the compiler answering out.
Checked(c, out) == [c EXCEPT !.result = out]

Cur == IF fix_pc = "c_compiler" THEN cand ELSE ctxt

SetCur(c) ==
    IF fix_pc = "c_compiler"
    THEN cand' = c /\ UNCHANGED ctxt
    ELSE ctxt' = c /\ UNCHANGED cand

\* A type-check of c answering out: the context is updated, or the
\* assertion fails and the run aborts.
CheckOrPanic(c, out, pc_after) ==
    IF CheckAssert(c, out)
    THEN /\ SetCur(Checked(c, out))
         /\ fix_pc' = pc_after
         /\ UNCHANGED fix_log
    ELSE /\ fix_pc' = "panic"
         /\ fix_log' = [fix_log EXCEPT !.prefix_diag = TRUE]
         /\ UNCHANGED <<ctxt, cand>>

\* TypeCheckingResult::passed
Passed(res) == res.some /\ res.errors = {}

\* What the first check of a candidate said: it failed, it passed, or it
\* passed with nothing for tier 1 and tier 2 to do.
FirstCheck(out) ==
    IF ~Passed(out) THEN "failed"
    ELSE IF out.suggestions = "none" /\ out.uses = {} THEN "clean"
    ELSE "passed"

\* A translator that would repair only when fix_errors is set.
OnlyIfFixErrors == config.fix_errors

\* A translator that would repair whatever fix_errors says.
AlwaysRepairs == TRUE

\* translate_type calls fix_by_llm; translate_variable and try_signature
\* call it `if self.config.fix_errors`.
RunsRepair == phase = "type" \/ config.fix_errors

\* FixContext::new, the first check of the candidate, and the translator's
\* branch after it: into fix_by_llm or past it.
FixNew ==
    /\ fix_pc = "new"
    /\ \E out \in TypeCheckOutcomes :
          IF CheckAssert(ctxt, out)
          THEN /\ ctxt' = Checked(ctxt, out)
               /\ fix_pc' = IF RunsRepair THEN "compiler" ELSE "done"
               /\ fix_log' = [fix_log EXCEPT !.first = FirstCheck(out)]
          ELSE /\ fix_pc' = "panic"
               /\ fix_log' = [fix_log EXCEPT !.prefix_diag = TRUE]
               /\ UNCHANGED ctxt
    /\ UNCHANGED <<ext, program, inner, sched, cand, round, failed>>

InCompiler == fix_pc \in {"compiler", "c_compiler"}

\* A loop that would take every result for one with suggestions.
AlwaysSuggests(c) == c.result.some

HasSuggestions(c) == c.result.some /\ c.result.suggestions # "none"

\* fix_by_suggestions, one turn of its loop: apply_suggestions, update_whole
\* (which panics when the prefix no longer starts the code), check.
ApplySuggestions ==
    /\ InCompiler
    /\ HasSuggestions(Cur)
    /\ IF Cur.result.suggestions = "prefix"
       THEN /\ fix_pc' = "panic"
            /\ UNCHANGED <<ctxt, cand, fix_log>>
       ELSE \E code \in Codes, out \in TypeCheckOutcomes :
               CheckOrPanic([Cur EXCEPT !.code = code], out, fix_pc)
    /\ UNCHANGED <<ext, program, inner, sched, round, failed>>

\* fix_by_compiler at its fixed point: no suggestion is left and either
\* there is no result, no hint, or add_uses added nothing.
AtFixedPoint(c) ==
    /\ ~HasSuggestions(c)
    /\ \/ ~c.result.some
       \/ AddUses(c.uses, c.result.uses) = c.uses

\* add_uses takes the hints out of the result (std::mem::take).
HintsTaken(c) == [c EXCEPT !.result = [@ EXCEPT !.uses = {}]]

\* fix_by_compiler, one turn of its loop in which add_uses grows the uses
\* and checks again.
AddUsesAndCheck ==
    /\ InCompiler
    /\ ~HasSuggestions(Cur)
    /\ Cur.result.some
    /\ AddUses(Cur.uses, Cur.result.uses) # Cur.uses
    /\ \E out \in TypeCheckOutcomes :
          CheckOrPanic([Cur EXCEPT !.uses = AddUses(Cur.uses, Cur.result.uses)],
                       out, fix_pc)
    /\ UNCHANGED <<ext, program, inner, sched, round, failed>>

\* fix_by_llm: the first fix_by_compiler returns; failed starts empty.
CompilerDone ==
    /\ fix_pc = "compiler"
    /\ AtFixedPoint(ctxt)
    /\ ctxt' = HintsTaken(ctxt)
    /\ failed' = {}
    /\ fix_pc' = "llm"
    /\ fix_log' = [fix_log EXCEPT
                      !.entry_errors = Cardinality(ctxt.result.errors)]
    /\ UNCHANGED <<ext, program, inner, sched, cand, round>>

ErrorCount(c) == Cardinality(c.result.errors)

\* A partition that would count an unchanged number of errors a success.
NotIncreased(new_errors, current_errors) == new_errors <= current_errors

\* .partition(|(_, new_errors, _)| *new_errors < current_errors)
Decreased(new_errors, current_errors) == new_errors < current_errors

\* min_by_key over the successes, which are in the order of msgs: the first
\* of the candidates with the fewest errors.
Better(c, msg, best, best_msg) ==
    \/ ~best.result.some
    \/ ErrorCount(c) < ErrorCount(best)
    \/ ErrorCount(c) = ErrorCount(best) /\ MsgRank(msg) < MsgRank(best_msg)

\* A round that would ask again for the messages that failed.
AllMsgs(res, fl) == {e.message : e \in res.errors}

\* msgs: the distinct messages of the errors, those in failed left out.
Msgs(res, fl) == {e.message : e \in res.errors} \ fl

\* fix_by_llm, head of its loop: done when nothing is left to repair, else
\* one LLM fix call per distinct message that has not failed yet.
LlmLoop ==
    /\ fix_pc = "llm"
    /\ IF ~ctxt.result.some \/ ctxt.result.errors = {}
       THEN /\ fix_pc' = "done"
            /\ UNCHANGED <<round, fix_log>>
       ELSE /\ round' = [NoRound EXCEPT
                   !.current_errors = ErrorCount(ctxt),
                   !.todo = Msgs(ctxt.result, failed)]
            /\ fix_pc' = "join"
            /\ fix_log' = [fix_log EXCEPT !.rounds = @ + 1]
    /\ UNCHANGED <<ext, program, inner, sched, ctxt, cand, failed>>

\* The future of msg yields None: the LLM call failed, its answer does not
\* parse, lacks a protected name, or is the code there already was.
LlmNoFix(msg) ==
    /\ fix_pc = "join"
    /\ msg \in round.todo
    /\ round' = [round EXCEPT !.todo = @ \ {msg}, !.failures = @ \cup {msg},
                              !.counts = @ \cup {round.current_errors}]
    /\ UNCHANGED <<ext, program, inner, sched, ctxt, cand, failed, fix_pc, fix_log>>

\* The future of msg gets a fix: new_ctxt = ctxt.clone(), update(fix), and
\* then fix_by_compiler on it.
LlmFix(msg) ==
    /\ fix_pc = "join"
    /\ msg \in round.todo
    /\ round' = [round EXCEPT !.msg = msg]
    /\ \E code \in Codes \ {ctxt.code}, out \in TypeCheckOutcomes :
          IF CheckAssert([ctxt EXCEPT !.code = code], out)
          THEN /\ cand' = Checked([ctxt EXCEPT !.code = code], out)
               /\ fix_pc' = "c_compiler"
               /\ UNCHANGED fix_log
          ELSE /\ fix_pc' = "panic"
               /\ fix_log' = [fix_log EXCEPT !.prefix_diag = TRUE]
               /\ UNCHANGED cand
    /\ UNCHANGED <<ext, program, inner, sched, ctxt, failed>>

\* The candidate's fix_by_compiler returns Some(new_ctxt): a success when
\* it has a result with fewer errors than the current context, else a
\* failure of its message.
CandidateDone ==
    /\ fix_pc = "c_compiler"
    /\ AtFixedPoint(cand)
    /\ LET c == HintsTaken(cand)
           new_errors == IF c.result.some THEN ErrorCount(c)
                         ELSE round.current_errors
           seen == round.counts \cup {new_errors}
       IN  round' =
             IF Decreased(new_errors, round.current_errors)
             THEN IF Better(c, round.msg, round.best, round.best_msg)
                  THEN [round EXCEPT !.todo = @ \ {round.msg}, !.msg = "none",
                                     !.counts = seen,
                                     !.best = c, !.best_msg = round.msg]
                  ELSE [round EXCEPT !.todo = @ \ {round.msg}, !.msg = "none",
                                     !.counts = seen]
             ELSE [round EXCEPT !.todo = @ \ {round.msg}, !.msg = "none",
                                !.counts = seen,
                                !.failures = @ \cup {round.msg}]
    /\ cand' = NoCtxt
    /\ fix_pc' = "join"
    /\ UNCHANGED <<ext, program, inner, sched, ctxt, failed, fix_log>>

\* join_all has every result: the failures' messages are marked failed and
\* the best success, if any, becomes the context; else the loop ends.
JoinAll ==
    /\ fix_pc = "join"
    /\ round.todo = {}
    /\ failed' = failed \cup round.failures
    /\ IF round.best_msg # "none"
       THEN ctxt' = round.best /\ fix_pc' = "llm"
       ELSE UNCHANGED ctxt /\ fix_pc' = "done"
    /\ round' = NoRound
    /\ UNCHANGED <<ext, program, inner, sched, cand, fix_log>>

\* The translator after the repair.  translate_type asserts that the last
\* check passed; translate_variable unwraps the result; try_signature
\* returns None without one.  The uses and the error count of the context
\* go into the result.
Record ==
    /\ fix_pc = "done"
    /\ IF phase = "type" /\ ~Passed(ctxt.result)
       THEN fix_pc' = "panic" /\ UNCHANGED translation
       ELSE IF ~ctxt.result.some
       THEN /\ fix_pc' = IF phase = "variable" THEN "panic" ELSE "dropped"
            /\ UNCHANGED translation
       ELSE /\ translation' = [uses |-> ctxt.uses,
                              errors |-> ErrorCount(ctxt)]
            /\ fix_pc' = "returned"
    /\ UNCHANGED <<derivev, more, config, program, inner, sched, ctxt, cand, round,
                   failed, fix_log>>

\* ------------------------------------------------------------------------
\* The derives of a translated type: the tail of translate_type and
\* remove_wrong_derives
\* ------------------------------------------------------------------------
DERIVES == <<"Clone", "Copy", "Debug", "Default", "PartialOrd", "Ord",
             "PartialEq", "Eq", "Hash">>

\* &DERIVES[..n], as the set that the loop inserts.
Slice(seq, n) == {seq[i] : i \in 1..n}

\* A match that would give every sort of type the whole list.
WholeList(type_sort) == Slice(DERIVES, Len(DERIVES))

\* match t.sort { Typedef => &DERIVES[..0], Union => &DERIVES[..2], _ => .. }
DerivesFor(type_sort) ==
    CASE type_sort = "Typedef" -> Slice(DERIVES, 0)
      [] type_sort = "Union" -> Slice(DERIVES, 2)
      [] OTHER -> Slice(DERIVES, Len(DERIVES))

\* A ParsedItem of sort Type(TypeInfo { sort, derives }); compiler::parse
\* yields it without derives.
TypeItem(name, type_sort) ==
    [name |-> name, sort |-> "Type", type_sort |-> type_sort, derives |-> {}]

OtherItem(name) ==
    [name |-> name, sort |-> "Function", type_sort |-> "None", derives |-> {}]

\* What the items of a repaired type translation may be: the type asked
\* for, alone or with a second item.
ParsedTypeItems ==
    {<<TypeItem("T1", "Struct")>>,
     <<TypeItem("T1", "Union")>>,
     <<TypeItem("T1", "Typedef")>>,
     <<TypeItem("T1", "Union"), TypeItem("Helper", "Union")>>,
     <<TypeItem("T1", "Union"), TypeItem("Helper", "Typedef")>>,
     <<TypeItem("T1", "Typedef"), OtherItem("helper_fn")>>}

IsType(item) == item.sort = "Type"

\* for d in ds { t.derives.insert(d.to_string()) }
AttachedItem(item) ==
    IF IsType(item)
    THEN [item EXCEPT !.derives = @ \cup DerivesFor(item.type_sort)]
    ELSE item

\* translate_type, lines 735-746: every type item gets the derives of its
\* sort; remove_wrong_derives starts.
AttachDerives ==
    /\ derive_pc = "attach"
    /\ type_items' = [i \in DOMAIN type_items |-> AttachedItem(type_items[i])]
    /\ derive_pc' = "check"
    /\ UNCHANGED <<derive_rounds, derive_clean>>
    /\ UNCHANGED <<program, inner, sched, fixv, wrapv, more>>

\* compiler::check_derive lists, per item, derives that the item carries
\* and must lose: one choice of such derives per item (none: no entry).
RECURSIVE Rejections(_)
Rejections(its) ==
    IF its = <<>> THEN {<<>>}
    ELSE {<<r>> \o rest : r \in SUBSET Head(its).derives,
                          rest \in Rejections(Tail(its))}

\* The map check_derive returns for the rejections rej of the items; with
\* stray it also has an entry under a name that is no type item of the
\* result.
ErrorMap(its, rej, stray) ==
    LET named == {i \in DOMAIN its : rej[i] # {}}
        names == {its[i].name : i \in named}
                    \cup (IF stray THEN {"Stray"} ELSE {})
    IN  [n \in names |->
            IF n = "Stray" THEN {"Clone"}
            ELSE rej[CHOOSE i \in named : its[i].name = n]]

\* A loop that would stop after its first check_derive, whatever it says.
AlwaysEmpty(errors) == TRUE

\* if errors.is_empty() { break }
IsEmpty(errors) == DOMAIN errors = {}

\* A retain that would keep every derive.
RetainAll(derives, ds) == derives

\* t.derives.retain(|d| !ds.contains(d))
Retain(derives, ds) == derives \ ds

\* if let Some(ds) = errors.remove(&item.name) { retain }
Minimized(item, errors) ==
    IF IsType(item) /\ item.name \in DOMAIN errors
    THEN [item EXCEPT !.derives = Retain(@, errors[item.name])]
    ELSE item

\* What is left of errors after the loop over the items.
Unclaimed(its, errors) ==
    DOMAIN errors \ {its[i].name : i \in {j \in DOMAIN its : IsType(its[j])}}

\* remove_wrong_derives, one turn of its loop: check_derive, break when it
\* reports nothing, else the reported derives go and every entry must have
\* been claimed by a type item.
RemoveWrongDerives ==
    /\ derive_pc = "check"
    /\ \E rej \in Rejections(type_items), stray \in BOOLEAN :
          LET errors == ErrorMap(type_items, rej, stray)
          IN  IF IsEmpty(errors)
              THEN /\ derive_pc' = "returned"
                   /\ derive_clean' = (DOMAIN errors = {})
                   /\ UNCHANGED <<type_items, derive_rounds>>
              ELSE /\ type_items' = [i \in DOMAIN type_items |->
                                       Minimized(type_items[i], errors)]
                   /\ derive_rounds' = [i \in DOMAIN type_items |->
                          IF type_items[i].name \in DOMAIN errors
                          THEN derive_rounds[i] + 1 ELSE derive_rounds[i]]
                   /\ derive_clean' = FALSE
                   /\ derive_pc' = IF Unclaimed(type_items, errors) = {}
                                   THEN "check" ELSE "panic"
    /\ UNCHANGED <<program, inner, sched, fixv, wrapv, more>>

\* No type is in the tail of translate_type.
DeriveIdle ==
    /\ type_items = <<>>
    /\ derive_pc = "idle"
    /\ derive_rounds = <<>>
    /\ derive_clean = FALSE

\* ------------------------------------------------------------------------
\* translate_names: the name registry
\* ------------------------------------------------------------------------
\* The C declarations of the programs under study.  A C type and a C
\* identifier are keyed by their C names; globals and functions share the
\* identifier namespace of C, so their names are distinct.
CTypeNames == {"node", "list"}
CVariableNames == {"count"}
CFunctionNames == {"main", "init"}

\* Answers of the LLM to rename_type / rename_variable / rename_function.
\* The client is outside the file: any name may come back for any request.
LlmNames == {"Node", "Option", "MyOption", "main", "my_main"}

\* The name stored for a type the LLM named new_name.
TypeName(new_name) ==
    IF new_name = "Option" THEN "My" \o new_name ELSE new_name

\* Variant of FunctionName that stores every proposed name as it is.
AsProposed(new_name) == new_name

\* The name stored for a function the LLM named new_name.
FunctionName(new_name) ==
    IF new_name = "main" THEN "my_" \o new_name ELSE new_name

\* BTreeMap::insert of every key of keys with the name name_of gives it.
InsertNames2(map, keys, name_of) ==
    [k \in DOMAIN map \cup keys |-> IF k \in keys THEN name_of[k] ELSE map[k]]

\* for (ty, new_name) in custom_types.zip(join_all(rename_type)).
RenameTypes ==
    /\ names_pc = "types"
    /\ \E type_names \in [custom_types -> LlmNames] :
          /\ new_type_names' = InsertNames2(new_type_names, custom_types,
                                   [ty \in custom_types |-> TypeName(type_names[ty])])
          /\ proposed' = [proposed EXCEPT !.types = type_names]
    /\ names_pc' = "variables"
    /\ UNCHANGED <<custom_types, variables, functions, new_term_names>>
    /\ UNCHANGED <<program, inner, sched, fixv, derivev, wrapv, sigv, replyv,
                   varv>>

\* for (var, new_name) in variables.keys().zip(join_all(rename_variable)).
RenameVariables ==
    /\ names_pc = "variables"
    /\ \E var_names \in [variables -> LlmNames] :
          /\ new_term_names' = InsertNames2(new_term_names, variables, var_names)
          /\ proposed' = [proposed EXCEPT !.variables = var_names]
    /\ names_pc' = "functions"
    /\ UNCHANGED <<custom_types, variables, functions, new_type_names>>
    /\ UNCHANGED <<program, inner, sched, fixv, derivev, wrapv, sigv, replyv,
                   varv>>

\* for (func, new_name) in functions.keys().zip(join_all(rename_function)).
RenameFunctions ==
    /\ names_pc = "functions"
    /\ \E func_names \in [functions -> LlmNames] :
          /\ new_term_names' = InsertNames2(new_term_names, functions,
                                   [f \in functions |-> FunctionName(func_names[f])])
          /\ proposed' = [proposed EXCEPT !.functions = func_names]
    /\ names_pc' = "done"
    /\ UNCHANGED <<custom_types, variables, functions, new_type_names>>
    /\ UNCHANGED <<program, inner, sched, fixv, derivev, wrapv, sigv, replyv,
                   varv>>

NoProposed == [types |-> <<>>, variables |-> <<>>, functions |-> <<>>]

\* translate_names is not running and the registry is not looked at.
NamesIdle ==
    /\ custom_types = {}
    /\ variables = {}
    /\ functions = {}
    /\ new_type_names = <<>>
    /\ new_term_names = <<>>
    /\ names_pc = "idle"
    /\ proposed = NoProposed

\* ------------------------------------------------------------------------
\* translate_function: signatures, candidates and the tournament
\* ------------------------------------------------------------------------
\* translate_signature(&code, new_name, &prefix, 3): the number asked for.
SignatureCount == 3

\* The values of normalized_signature_ty that an answer may have, numbered
\* in their key order in sig_map.
Shapes == 1..3

\* sig.params.len() of a shape.
ParamsLen(ty) == IF ty = 3 THEN 2 ELSE 1

\* func.params of the C functions under study.
CParams == {1, 2}

\* One line of the answer of translate_signature.  "unbalanced": the
\* counts of '<' and '>' differ once "->" is taken out; "unparseable":
\* compiler::parse gives None; "not_the_function": it parses to something
\* else than one function named new_name; "fn": it parses to the function,
\* with shape ty and normalized text text.
SigLines ==
    {[form |-> f, ty |-> 0, text |-> "none"] :
        f \in {"unbalanced", "unparseable", "not_the_function"}}
    \cup {[form |-> "fn", ty |-> t, text |-> x] : t \in Shapes, x \in {"a", "b"}}

\* The answers of the LLM: at most SignatureCount lines.
RECURSIVE SeqsUpTo(_, _)
SeqsUpTo(S, n) ==
    IF n = 0 THEN {<<>>}
    ELSE LET shorter == SeqsUpTo(S, n - 1)
         IN  shorter \cup {Append(q, x) : q \in shorter, x \in S}

\* An insert in which a later line of a shape replaces the one kept.
InsertLast(map, ty, text) ==
    [k \in DOMAIN map \cup {ty} |-> IF k = ty THEN text ELSE map[k]]

\* sig_map.entry(ty).or_insert(text)
OrInsert(map, ty, text) ==
    [k \in DOMAIN map \cup {ty} |->
        IF k \in DOMAIN map THEN map[k] ELSE text]

\* The loop over the answer: ok is FALSE when an assertion of the loop
\* failed (the line is not the one function named new_name).
RECURSIVE SigMapOf(_, _)
SigMapOf(map, answer) ==
    IF answer = <<>> THEN [map |-> map, ok |-> TRUE]
    ELSE LET sig == Head(answer)
         IN  IF sig.form \in {"unbalanced", "unparseable"}
             THEN SigMapOf(map, Tail(answer))
             ELSE IF sig.form = "not_the_function"
             THEN [map |-> map, ok |-> FALSE]
             ELSE SigMapOf(OrInsert(map, sig.ty, sig.text), Tail(answer))

\* if sig_map.keys().any(|sig| sig.params.len() <= param_len) { retain }
RetainArity(map, param_len) ==
    IF \E ty \in DOMAIN map : ParamsLen(ty) <= param_len
    THEN [ty \in {t \in DOMAIN map : ParamsLen(t) <= param_len} |-> map[ty]]
    ELSE map

\* The answer of translate_signature arrives: the loop over it and the
\* arity filter run up to the first join_all.
TranslateSignature ==
    /\ sig_pc = "signature"
    /\ \E answer \in SeqsUpTo(SigLines, SignatureCount) :
          LET built == SigMapOf(<<>>, answer)
          IN  /\ sigs' = answer
              /\ sig_map' = IF built.ok THEN RetainArity(built.map, func_params)
                            ELSE built.map
              /\ sig_pc' = IF built.ok THEN "first" ELSE "panic"
    /\ UNCHANGED <<func_params, candidates, best_cand, sig_log>>
    /\ UNCHANGED <<program, inner, sched, fixv, derivev, wrapv, namev, replyv,
                   varv>>

\* What one try_signature returns: None (the LLM call failed, its answer
\* does not parse, or the repair has no result) or Some(translated) with
\* translated.errors residual errors.
CandidateErrors == {0, 1}

Outcomes ==
    {[some |-> FALSE, errors |-> 0]}
    \cup {[some |-> TRUE, errors |-> e] : e \in CandidateErrors}

NoCandidate ==
    [some |-> FALSE, sig |-> 0, errors |-> 0, signature_only |-> FALSE]

IsSome(c) == c.some

\* A second sweep that would not mark its candidates.
FlattenUnmarked(outcome, signature_only) ==
    SelectSeq(Values([ty \in DOMAIN outcome |->
                        [some |-> outcome[ty].some, sig |-> ty,
                         errors |-> outcome[ty].errors,
                         signature_only |-> FALSE]]), IsSome)

\* join_all(sig_map.values().map(try_signature)).into_iter().flatten():
\* the candidates in the key order of sig_map; those of the second sweep
\* then get c.signature_only = true.
Flatten(outcome, signature_only) ==
    SelectSeq(Values([ty \in DOMAIN outcome |->
                        [some |-> outcome[ty].some, sig |-> ty,
                         errors |-> outcome[ty].errors,
                         signature_only |-> signature_only]]), IsSome)

\* candidates.iter().map(|c| c.errors).min()
MinErrors(cs) ==
    CHOOSE e \in {cs[i].errors : i \in DOMAIN cs} :
        \A i \in DOMAIN cs : e <= cs[i].errors

\* A filter that would keep every candidate.
RetainAny(cs) == cs

\* candidates.retain(|c| c.errors == min_errors)
RetainMin(cs) ==
    LET min_errors == MinErrors(cs)
        IsMin(c) == c.errors = min_errors
    IN  SelectSeq(cs, IsMin)

\* The tail of translate_function from the candidates cs of a sweep:
\* the minimum filter, reverse, and the first pop.
Select(cs) ==
    LET kept == RetainMin(cs)
    IN  /\ best_cand' = Head(kept)
        /\ candidates' = Tail(kept)
        /\ sig_pc' = IF Tail(kept) = <<>> THEN "returned" ELSE "compare"

\* The first join_all of try_signature returns.
FirstSweep ==
    /\ sig_pc = "first"
    /\ \E outcome \in [DOMAIN sig_map -> Outcomes] :
          LET cs == Flatten(outcome, FALSE)
          IN  /\ sig_log' = [sig_log EXCEPT
                                !.first = Cardinality(DOMAIN sig_map),
                                !.collected = cs]
              /\ IF cs = <<>>
                 THEN sig_pc' = "second" /\ UNCHANGED <<candidates, best_cand>>
                 ELSE Select(cs)
    /\ UNCHANGED <<func_params, sigs, sig_map>>
    /\ UNCHANGED <<program, inner, sched, fixv, derivev, wrapv, namev, replyv,
                   varv>>

\* The second join_all, on the signature string of the C function, returns.
SecondSweep ==
    /\ sig_pc = "second"
    /\ \E outcome \in [DOMAIN sig_map -> Outcomes] :
          LET cs == Flatten(outcome, TRUE)
          IN  /\ sig_log' = [sig_log EXCEPT
                                !.second = Cardinality(DOMAIN sig_map),
                                !.swept_twice = TRUE,
                                !.collected = cs]
              /\ IF cs = <<>>
                 THEN sig_pc' = "panic" /\ UNCHANGED <<candidates, best_cand>>
                 ELSE Select(cs)
    /\ UNCHANGED <<func_params, sigs, sig_map>>
    /\ UNCHANGED <<program, inner, sched, fixv, derivev, wrapv, namev, replyv,
                   varv>>

\* while let Some(cand) = candidates.pop(): one answer of client.compare.
Compare ==
    /\ sig_pc = "compare"
    /\ \E ordering \in {"Less", "Equal", "Greater"} :
          best_cand' = IF ordering = "Less" THEN Head(candidates) ELSE best_cand
    /\ candidates' = Tail(candidates)
    /\ sig_pc' = IF Tail(candidates) = <<>> THEN "returned" ELSE "compare"
    /\ sig_log' = [sig_log EXCEPT !.compares = @ + 1]
    /\ UNCHANGED <<func_params, sigs, sig_map>>
    /\ UNCHANGED <<program, inner, sched, fixv, derivev, wrapv, namev, replyv,
                   varv>>

NoSigLog ==
    [first |-> 0, second |-> 0, swept_twice |-> FALSE, compares |-> 0,
     collected |-> <<>>]

\* No function is being translated.
SigIdle ==
    /\ func_params = 0
    /\ sigs = <<>>
    /\ sig_map = <<>>
    /\ candidates = <<>>
    /\ best_cand = NoCandidate
    /\ sig_pc = "idle"
    /\ sig_log = NoSigLog

\* ------------------------------------------------------------------------
\* One fix future of fix_by_llm: the filter of the LLM's reply, and the
\* assertion on the names after the repair
\* ------------------------------------------------------------------------
\* The protected names of the contexts under study, and the names of the
\* items a reply may define.  An item is represented by its name;
\* compiler::parse gives the items in the order of the text, and nothing
\* keeps a text from defining a name twice.
ProtectedNames == {"T1", "Helper"}
ReplyNames == {"T1", "Helper", "Other"}

\* Largest number of items in a reply.
MaxItems == 3

\* fixed_items.retain(|i| ctxt.names.contains(&i.name))
RetainNamed(items, keep) ==
    LET Named(i) == i \in keep IN SelectSeq(items, Named)

\* if ctxt.names.len() != fixed_items.len() { return None; }
SameLen(items, keep) == Cardinality(keep) = Len(items)

\* The LLM's fix arrives and parses: the retain and the length test.
FilterFix ==
    /\ reply_pc = "fix"
    /\ \E items \in SeqsUpTo(ReplyNames, MaxItems) :
          /\ parsed_fix' = items
          /\ fixed_items' = RetainNamed(items, protected_names)
          /\ reply_pc' = IF SameLen(RetainNamed(items, protected_names),
                                    protected_names)
                         THEN "candidate" ELSE "none"
    /\ UNCHANGED protected_names
    /\ UNCHANGED <<program, inner, sched, fixv, derivev, wrapv, namev, sigv,
                   varv>>

\* The candidate has become the context and the repair is over: the
\* translator parses its code and asserts
\* assert_eq!(item_names, fixed_item_names).
AssertNames ==
    /\ reply_pc = "candidate"
    /\ reply_pc' = IF {fixed_items[i] : i \in DOMAIN fixed_items} = protected_names
                   THEN "returned" ELSE "panic"
    /\ UNCHANGED <<protected_names, parsed_fix, fixed_items>>
    /\ UNCHANGED <<program, inner, sched, fixv, derivev, wrapv, namev, sigv,
                   varv>>

\* No fix future is under study.
ReplyIdle ==
    /\ protected_names = {}
    /\ parsed_fix = <<>>
    /\ fixed_items = <<>>
    /\ reply_pc = "idle"

\* ------------------------------------------------------------------------
\* translate_variable: the two calls of the client and the result
\* ------------------------------------------------------------------------
\* What client.translate_variable may answer for variable n: Err, or Ok
\* with a text that does not parse, or Ok with a text that parses to items.
VariableAnswers(n) ==
    {[ok |-> FALSE, parses |-> FALSE, items |-> <<>>],
     [ok |-> TRUE, parses |-> FALSE, items |-> <<>>]}
    \cup {[ok |-> TRUE, parses |-> TRUE, items |-> reply] :
            reply \in LlmReplies("variable", n)}

\* The locals of translate_variable: signature_only, the items, and the
\* result of the check of FixContext::new (None, or Some with its errors).
NoLocal ==
    [signature_only |-> FALSE, items |-> <<>>, some |-> FALSE, errors |-> 0]

\* A result that would never be marked signature_only.
UnmarkedResult(items, signature_only, errors) ==
    [items |-> items, uses |-> {}, errors |-> errors, copied |-> FALSE,
     signature_only |-> FALSE]

\* TranslationResult { items, uses, errors, copied: false, signature_only }
\* as translate_variable returns it; the uses are those of the repair,
\* left out here.
VariableResult(items, signature_only, errors) ==
    [items |-> items, uses |-> {}, errors |-> errors, copied |-> FALSE,
     signature_only |-> signature_only]

NoVariableResult == VariableResult(<<>>, FALSE, 0)

\* From the text of an Ok answer to the repair: compiler::parse(..).unwrap(),
\* dedup_and_check and its assertion, take_uses, and the type check of
\* FixContext::new, which gives no result or one with its errors.
ParseAndCheck(answer, signature_only) ==
    LET items == DedupAndCheck(answer.items)
    IN  IF answer.parses /\ DedupAssert(items, NewName("variable", var_id))
        THEN /\ \E some \in BOOLEAN : \E errors \in 0..MaxErrs :
                   /\ ~some => errors = 0
                   /\ var_local' = [signature_only |-> signature_only,
                                    items |-> DrainUses(items),
                                    some |-> some, errors |-> errors]
             /\ var_pc' = "repair"
        ELSE /\ var_pc' = "panic"
             /\ UNCHANGED var_local

\* The answer to the call with the full initializer arrives: Ok goes on
\* with signature_only = false, Err makes the second call.
FirstAnswer ==
    /\ var_pc = "first"
    /\ \E answer \in VariableAnswers(var_id) :
          /\ var_calls' = Append(var_calls,
                                 [stripped |-> FALSE, ok |-> answer.ok])
          /\ IF answer.ok
             THEN ParseAndCheck(answer, FALSE)
             ELSE var_pc' = "second" /\ UNCHANGED var_local
    /\ UNCHANGED <<var_id, var_result>>
    /\ UNCHANGED <<program, inner, sched, fixv, derivev, wrapv, namev, sigv,
                   replyv>>

\* The answer to the call with the initializer stripped arrives: Ok goes
\* on with signature_only = true, Err fails the unwrap.
SecondAnswer ==
    /\ var_pc = "second"
    /\ \E answer \in VariableAnswers(var_id) :
          /\ var_calls' = Append(var_calls,
                                 [stripped |-> TRUE, ok |-> answer.ok])
          /\ IF answer.ok
             THEN ParseAndCheck(answer, TRUE)
             ELSE var_pc' = "panic" /\ UNCHANGED var_local
    /\ UNCHANGED <<var_id, var_result>>
    /\ UNCHANGED <<program, inner, sched, fixv, derivev, wrapv, namev, sigv,
                   replyv>>

\* The rest of translate_variable.  With config.fix_errors, fix_by_llm
\* runs: it leaves no more errors than it found, and the names of its
\* items are asserted afterwards.  Without a result of the check the
\* unwrap fails; else the error count goes into the result, which is
\* returned.
VariableReturn ==
    /\ var_pc = "repair"
    /\ \/ /\ config.fix_errors \/ ~var_local.some
          /\ var_pc' = "panic"
          /\ UNCHANGED var_result
       \/ /\ var_local.some
          /\ \E errors \in 0..var_local.errors :
                /\ ~config.fix_errors => errors = var_local.errors
                /\ var_result' = VariableResult(var_local.items,
                                                var_local.signature_only,
                                                errors)
                /\ var_pc' = "returned"
    /\ UNCHANGED <<var_id, var_local, var_calls>>
    /\ UNCHANGED <<program, inner, sched, fixv, derivev, wrapv, namev, sigv,
                   replyv>>

\* No variable is being translated.
VarIdle ==
    /\ var_id = 0
    /\ var_local = NoLocal
    /\ var_pc = "idle"
    /\ var_calls = <<>>
    /\ var_result = NoVariableResult

MoreIdle == NamesIdle /\ SigIdle /\ ReplyIdle /\ VarIdle

\* ------------------------------------------------------------------------
\* Specification of the schedulers
\* ------------------------------------------------------------------------
Init ==
    /\ \E s \in Sizes :
          /\ type_graph \in Dags(s["type"])
          /\ variable_graph \in Dags(s["variable"])
          /\ function_graph \in Dags(s["function"])
    /\ struct_alias \in Aliases(type_graph)
    /\ translated_type_names = {}
    /\ translated_term_names = {}
    /\ translated_types = <<>>
    /\ translated_variables = <<>>
    /\ translated_functions = <<>>
    /\ uses = InitialUses
    /\ phase = "type"
    /\ sched_pc = "loop"
    /\ graph = type_graph
    /\ futures = <<>>
    /\ panicked = FALSE
    /\ commit_order = <<>>
    /\ spawn_count = [k \in Kinds |-> [n \in DOMAIN GraphOf(k) |-> 0]]
    /\ ctxt = NoCtxt
    /\ cand = NoCtxt
    /\ round = NoRound
    /\ failed = {}
    /\ fix_pc = "idle"
    /\ fix_log = NoLog
    /\ DeriveIdle
    /\ WrapIdle
    /\ MoreIdle

Next ==
    \/ Spawn
    \/ Return
    \/ \E n \in 1..MaxNodes : CopyAlias(n)
    \/ \E n \in 1..MaxNodes : Signature(n)
    \/ \E n \in 1..MaxNodes : Translate(n)
    \/ \E n \in 1..MaxNodes : Finish(n)
    \/ \E n \in 1..MaxNodes : TypeNotPassed(n)

Spec == Init /\ [][Next]_vars

FairSpec == Spec /\ WF_vars(Next)

\* ------------------------------------------------------------------------
\* Specification of the repair of one candidate
\* ------------------------------------------------------------------------
InitFix ==
    /\ type_graph = <<>>
    /\ variable_graph = <<>>
    /\ function_graph = <<>>
    /\ struct_alias = <<>>
    /\ translated_type_names = {}
    /\ translated_term_names = {}
    /\ translated_types = <<>>
    /\ translated_variables = <<>>
    /\ translated_functions = <<>>
    /\ uses = InitialUses
    /\ phase \in Kinds
    /\ sched_pc = "select"
    /\ graph = <<>>
    /\ futures = <<>>
    /\ panicked = FALSE
    /\ commit_order = <<>>
    /\ spawn_count = [k \in Kinds |-> <<>>]
    /\ ctxt = [uses |-> {}, code |-> "c0", result |-> NoneResult]
    /\ cand = NoCtxt
    /\ round = NoRound
    /\ failed = {}
    /\ fix_pc = "new"
    /\ fix_log = NoLog
    /\ DeriveIdle
    /\ config \in Configs
    /\ translation = NoTranslated
    /\ MoreIdle

NextFix ==
    \/ FixNew
    \/ ApplySuggestions
    \/ AddUsesAndCheck
    \/ CompilerDone
    \/ LlmLoop
    \/ \E msg \in Messages : LlmNoFix(msg)
    \/ \E msg \in Messages : LlmFix(msg)
    \/ CandidateDone
    \/ JoinAll
    \/ Record

SpecFix == InitFix /\ [][NextFix]_vars

FairSpecFix == SpecFix /\ WF_vars(NextFix)

\* ------------------------------------------------------------------------
\* Specification of the derives of one translated type
\* ------------------------------------------------------------------------
InitDerive ==
    /\ type_graph = <<>>
    /\ variable_graph = <<>>
    /\ function_graph = <<>>
    /\ struct_alias = <<>>
    /\ translated_type_names = {}
    /\ translated_term_names = {}
    /\ translated_types = <<>>
    /\ translated_variables = <<>>
    /\ translated_functions = <<>>
    /\ uses = InitialUses
    /\ phase = "type"
    /\ sched_pc = "select"
    /\ graph = <<>>
    /\ futures = <<>>
    /\ panicked = FALSE
    /\ commit_order = <<>>
    /\ spawn_count = [k \in Kinds |-> <<>>]
    /\ ctxt = NoCtxt
    /\ cand = NoCtxt
    /\ round = NoRound
    /\ failed = {}
    /\ fix_pc = "idle"
    /\ fix_log = NoLog
    /\ type_items \in ParsedTypeItems
    /\ derive_pc = "attach"
    /\ derive_rounds = [i \in DOMAIN type_items |-> 0]
    /\ derive_clean = FALSE
    /\ WrapIdle
    /\ MoreIdle

NextDerive ==
    \/ AttachDerives
    \/ RemoveWrongDerives

SpecDerive == InitDerive /\ [][NextDerive]_vars

FairSpecDerive == SpecDerive /\ WF_vars(NextDerive)

\* ------------------------------------------------------------------------
\* Specification of translate_names
\* ------------------------------------------------------------------------
\* Everything but the registry is as Translator::new leaves it.
Untouched ==
    /\ type_graph = <<>>
    /\ variable_graph = <<>>
    /\ function_graph = <<>>
    /\ struct_alias = <<>>
    /\ translated_type_names = {}
    /\ translated_term_names = {}
    /\ translated_types = <<>>
    /\ translated_variables = <<>>
    /\ translated_functions = <<>>
    /\ uses = InitialUses
    /\ phase = "type"
    /\ sched_pc = "select"
    /\ graph = <<>>
    /\ futures = <<>>
    /\ panicked = FALSE
    /\ commit_order = <<>>
    /\ spawn_count = [k \in Kinds |-> <<>>]
    /\ ctxt = NoCtxt
    /\ cand = NoCtxt
    /\ round = NoRound
    /\ failed = {}
    /\ fix_pc = "idle"
    /\ fix_log = NoLog
    /\ DeriveIdle
    /\ WrapIdle

InitNames ==
    /\ Untouched
    /\ custom_types \in SUBSET CTypeNames
    /\ variables \in SUBSET CVariableNames
    /\ functions \in SUBSET CFunctionNames
    /\ new_type_names = <<>>
    /\ new_term_names = <<>>
    /\ names_pc = "types"
    /\ proposed = NoProposed
    /\ SigIdle
    /\ ReplyIdle
    /\ VarIdle

NextNames ==
    \/ RenameTypes
    \/ RenameVariables
    \/ RenameFunctions

SpecNames == InitNames /\ [][NextNames]_vars

\* ------------------------------------------------------------------------
\* Specification of translate_function
\* ------------------------------------------------------------------------
\* Everything but the configuration is as in Untouched; translate_function
\* reads no field of the configuration, try_signature reads fix_errors.
InitSig ==
    /\ type_graph = <<>>
    /\ variable_graph = <<>>
    /\ function_graph = <<>>
    /\ struct_alias = <<>>
    /\ translated_type_names = {}
    /\ translated_term_names = {}
    /\ translated_types = <<>>
    /\ translated_variables = <<>>
    /\ translated_functions = <<>>
    /\ uses = InitialUses
    /\ phase = "function"
    /\ sched_pc = "select"
    /\ graph = <<>>
    /\ futures = <<>>
    /\ panicked = FALSE
    /\ commit_order = <<>>
    /\ spawn_count = [k \in Kinds |-> <<>>]
    /\ ctxt = NoCtxt
    /\ cand = NoCtxt
    /\ round = NoRound
    /\ failed = {}
    /\ fix_pc = "idle"
    /\ fix_log = NoLog
    /\ DeriveIdle
    /\ config \in {[DefaultConfig EXCEPT !.try_multiple_signatures = b] :
                      b \in BOOLEAN}
    /\ translation = NoTranslated
    /\ NamesIdle
    /\ func_params \in CParams
    /\ sigs = <<>>
    /\ sig_map = <<>>
    /\ candidates = <<>>
    /\ best_cand = NoCandidate
    /\ sig_pc = "signature"
    /\ sig_log = NoSigLog
    /\ ReplyIdle
    /\ VarIdle

NextSig ==
    \/ TranslateSignature
    \/ FirstSweep
    \/ SecondSweep
    \/ Compare

SpecSig == InitSig /\ [][NextSig]_vars

\* ------------------------------------------------------------------------
\* Specification of one fix future
\* ------------------------------------------------------------------------
InitReply ==
    /\ Untouched
    /\ NamesIdle
    /\ SigIdle
    /\ protected_names \in SUBSET ProtectedNames \ {{}}
    /\ parsed_fix = <<>>
    /\ fixed_items = <<>>
    /\ reply_pc = "fix"
    /\ VarIdle

NextReply ==
    \/ FilterFix
    \/ AssertNames

SpecReply == InitReply /\ [][NextReply]_vars

\* ------------------------------------------------------------------------
\* Specification of translate_variable
\* ------------------------------------------------------------------------
InitVar ==
    /\ type_graph = <<>>
    /\ variable_graph = <<>>
    /\ function_graph = <<>>
    /\ struct_alias = <<>>
    /\ translated_type_names = {}
    /\ translated_term_names = {}
    /\ translated_types = <<>>
    /\ translated_variables = <<>>
    /\ translated_functions = <<>>
    /\ uses = InitialUses
    /\ phase = "variable"
    /\ sched_pc = "select"
    /\ graph = <<>>
    /\ futures = <<>>
    /\ panicked = FALSE
    /\ commit_order = <<>>
    /\ spawn_count = [k \in Kinds |-> <<>>]
    /\ ctxt = NoCtxt
    /\ cand = NoCtxt
    /\ round = NoRound
    /\ failed = {}
    /\ fix_pc = "idle"
    /\ fix_log = NoLog
    /\ DeriveIdle
    /\ config \in Configs
    /\ translation = NoTranslated
    /\ NamesIdle
    /\ SigIdle
    /\ ReplyIdle
    /\ var_id \in 1..MaxNodes
    /\ var_local = NoLocal
    /\ var_pc = "first"
    /\ var_calls = <<>>
    /\ var_result = NoVariableResult

NextVar ==
    \/ FirstAnswer
    \/ SecondAnswer
    \/ VariableReturn

SpecVar == InitVar /\ [][NextVar]_vars

\* ------------------------------------------------------------------------
\* Properties of the schedulers and of the translation state
\* ------------------------------------------------------------------------
PhaseRank(k) ==
    CASE k = "type" -> 1
      [] k = "variable" -> 2
      [] k = "function" -> 3
      [] k = "finished" -> 4

\* The scheduler of kind k has returned.
Returned(k) == PhaseRank(phase) > PhaseRank(k)

AllNodes == UNION {{<<k, n>> : n \in DOMAIN GraphOf(k)} : k \in Kinds}

Committed(k) == DOMAIN StoreOf(k)

InsertCount(k, n) ==
    Cardinality({i \in DOMAIN commit_order : commit_order[i] = <<k, n>>})

C2_AtMostOnce ==
    \A kn \in AllNodes :
        /\ spawn_count[kn[1]][kn[2]] <= 1
        /\ InsertCount(kn[1], kn[2]) <= 1
        /\ (kn[2] \in Committed(kn[1])) = (InsertCount(kn[1], kn[2]) = 1)
        /\ Returned(kn[1]) =>
              (spawn_count[kn[1]][kn[2]] = 1 /\ InsertCount(kn[1], kn[2]) = 1)

C2_StoreStable ==
    /\ \A n \in DOMAIN translated_types :
          n \in DOMAIN translated_types' /\ translated_types'[n] = translated_types[n]
    /\ \A n \in DOMAIN translated_variables :
          n \in DOMAIN translated_variables'
              /\ translated_variables'[n] = translated_variables[n]
    /\ \A n \in DOMAIN translated_functions :
          n \in DOMAIN translated_functions'
              /\ translated_functions'[n] = translated_functions[n]

C2_CommittedExactlyOnce == [](C2_AtMostOnce) /\ [][C2_StoreStable]_vars

\* C2 witness: all schedulers returned and some kind has two committed nodes.
C2_Witness ==
    /\ phase = "finished"
    /\ \E k \in Kinds : Cardinality(Committed(k)) >= 2

\* C3: when no task fails, every scheduler eventually returns, and at the
\* moment it returns its working graph is empty, no task is in flight and
\* every node of its kind is committed.
C3_ReturnsClean ==
    phase' # phase =>
        /\ graph = <<>>
        /\ futures = <<>>
        /\ Committed(phase) = DOMAIN GraphOf(phase)

C3_SchedulerTerminates ==
    /\ [][C3_ReturnsClean]_vars
    /\ \A k \in Kinds : (phase = k) ~> (Returned(k) \/ panicked)

\* C3 witness: every scheduler has returned for a program with a dependency.
C3_Witness ==
    /\ phase = "finished"
    /\ \E kn \in AllNodes : GraphOf(kn[1])[kn[2]] # {}

Artifacts(k) == {n \in Committed(k) : ~StoreOf(k)[n].copied}

\* C6: two distinct artifacts committed in the same kind never define an
\* item of the same name (a copied alias result, which repeats the items of
\* the aliased struct on purpose, is not counted as defining them).
C6_NoSharedItemName ==
    \A k \in Kinds : \A a, b \in Artifacts(k) :
        a # b => ItemNames(StoreOf(k)[a].items)
                    \cap ItemNames(StoreOf(k)[b].items) = {}

\* The ParsedItems of the three stores: <<kind, node, index>>.
ItemsOfKind(k) ==
    UNION {{<<k, n, i>> : i \in DOMAIN StoreOf(k)[n].items} :
             n \in Committed(k)}

ValidStoredItems == UNION {ItemsOfKind(k) : k \in Kinds}

ItemAt(p) == StoreOf(p[1])[p[2]].items[p[3]]

ItemsNamed(name, type_sort) ==
    {p \in ValidStoredItems :
        ItemAt(p).name = name /\ (ItemAt(p).sort = "Type") = type_sort}

\* C7 as claimed: every recorded name belongs to exactly one stored item.
C7_ExactlyOneItem ==
    /\ \A name \in translated_type_names :
          Cardinality(ItemsNamed(name, TRUE)) = 1
    /\ \A name \in translated_term_names :
          Cardinality(ItemsNamed(name, FALSE)) = 1

StoredNames(type_sort) ==
    UNION {UNION {{r.items[i].name : i \in {j \in DOMAIN r.items :
                        (r.items[j].sort = "Type") = type_sort}} :
                    r \in {StoreOf(k)[n] : n \in Committed(k)}} : k \in Kinds}

\* C7 as amended: every name in translated_type_names (translated_term_names)
\* is the name of at least one stored type item (other item), and the name
\* of every stored item is in the set of its sort.
C7_AtLeastOneItem ==
    /\ translated_type_names = StoredNames(TRUE)
    /\ translated_term_names = StoredNames(FALSE)

\* C7 witness: a copied typedef-alias result has been committed.
C7_Witness ==
    \E n \in DOMAIN translated_types : translated_types[n].copied

\* C8: the global use set holds only lines that pass the standalone probe.
C8_UsesPassProbe == \A u \in uses : ProbePasses(u)

\* The pieces of the program that C9 claims: the use set, the results that
\* are not copied in the order of their insertion, the entry point.
InsertedOrder ==
    LET Kept(kn) == ~StoreOf(kn[1])[kn[2]].copied
        kept == SelectSeq(commit_order, Kept)
        lines == InSet(uses)
    IN  [i \in DOMAIN lines |-> <<lines[i]>>]
            \o [i \in DOMAIN kept |->
                   ResultCode(StoreOf(kept[i][1])[kept[i][2]])]
            \o << <<"fn main() {}">> >>

\* C9 as claimed: the results appear in insertion order.
C9_InsertionOrder == Code = InsertedOrder

LinePos(line) == CHOOSE i \in DOMAIN LineOrder : LineOrder[i] = line

\* Position of the result of node n of kind k among the pieces, by kind
\* (types, variables, functions) and then by ascending key.
KeyPos(k, n) ==
    Cardinality(uses)
        + Cardinality({kn \in AllNodes :
              /\ kn[2] \in Artifacts(kn[1])
              /\ \/ PhaseRank(kn[1]) < PhaseRank(k)
                 \/ kn[1] = k /\ kn[2] <= n})

\* C9 as amended: the program is the use set in ascending order, then every
\* result that is not copied (types, then variables, then functions), each
\* group in ascending order of its key (not of its insertion), then the
\* entry point.
C9_KeyOrder ==
    LET c == Code
        nu == Cardinality(uses)
        arts == {kn \in AllNodes : kn[2] \in Artifacts(kn[1])}
    IN  /\ Len(c) = nu + Cardinality(arts) + 1
        /\ c[Len(c)] = <<"fn main() {}">>
        /\ \A i \in 1..nu :
              /\ Len(c[i]) = 1 /\ c[i][1] \in uses
              /\ \A j \in 1..(i - 1) : LinePos(c[j][1]) < LinePos(c[i][1])
        /\ \A kn \in arts :
              c[KeyPos(kn[1], kn[2])] = ResultCode(StoreOf(kn[1])[kn[2]])

\* C9 witness: two results of one kind were inserted against key order, and
\* a copied result is in the store.
C9_Witness ==
    /\ phase = "finished"
    /\ \E i, j \in DOMAIN commit_order :
          /\ i < j
          /\ commit_order[i][1] = commit_order[j][1]
          /\ commit_order[i][2] > commit_order[j][2]
          /\ ~StoreOf(commit_order[i][1])[commit_order[i][2]].copied
          /\ ~StoreOf(commit_order[j][1])[commit_order[j][2]].copied

EmptyProgram == AllNodes = {}

NeverSpawned ==
    /\ futures = <<>>
    /\ commit_order = <<>>
    /\ sched_pc = "loop"

\* C10 as claimed: for an empty program no task is spawned and the output is
\* the entry point alone.
C10_OnlyEntryPoint ==
    EmptyProgram =>
        /\ NeverSpawned
        /\ phase = "finished" => Code = << <<"fn main() {}">> >>

\* C10 as amended: for an empty program no task is spawned, and the output
\* is the two extern crate lines of Translator::new followed by the entry
\* point.
C10_ExternLinesAndEntryPoint ==
    EmptyProgram =>
        /\ NeverSpawned
        /\ ~panicked
        /\ phase = "finished" =>
              Code = << <<"extern crate libc;">>, <<"extern crate once_cell;">>,
                        <<"fn main() {}">> >>

\* C10 witness: the three schedulers have returned for an empty program.
C10_Witness == EmptyProgram /\ phase = "finished"

\* ------------------------------------------------------------------------
\* Properties of the repair loop
\* ------------------------------------------------------------------------
Terminated == fix_pc \in {"done", "panic"}

\* C4: the repair always terminates, whatever the compiler and the LLM
\* answer.
C4_AlwaysTerminates == <>Terminated

\* A round of the tier-3 loop ends (join_all has returned).
RoundEnds == fix_pc = "join" /\ fix_pc' \in {"llm", "done"}

\* What does hold of tier 3 (C4, second half): every round of the tier-3
\* loop either replaces the context by one with strictly fewer errors, or
\* ends the loop with the context unchanged and exactly the messages it
\* tried added to failed (none, when every message had failed before); so
\* the loop runs at most one round more than there were errors when it
\* started.  The loop of fix_by_suggestions has no such measure.
C4_RoundProgress ==
    RoundEnds =>
        \/ /\ fix_pc' = "llm"
           /\ ErrorCount(ctxt') < ErrorCount(ctxt)
        \/ /\ fix_pc' = "done"
           /\ ctxt' = ctxt
           /\ failed' = failed \cup
                 ({e.message : e \in ctxt.result.errors} \ failed)

C4_RoundsBounded ==
    /\ fix_log.rounds <= fix_log.entry_errors + 1
    /\ fix_log.rounds >= 1 =>
          ErrorCount(ctxt) <= fix_log.entry_errors - (fix_log.rounds - 1)

C4_Tier3Terminates == [](C4_RoundsBounded) /\ [][C4_RoundProgress]_vars

Contexts == {ctxt, cand, round.best}

\* C5: every result a FixContext holds has only diagnostics after the
\* lines of (uses + prefix), and a diagnostic inside the prefix region
\* aborts the run, so that the repair never completes after it.
C5_PrefixClean ==
    /\ fix_log.prefix_diag => fix_pc = "panic"
    /\ \A c \in Contexts :
          c.result.some => \A e \in c.result.errors : e.line > PrefixLines(c)

\* C5 witness: imports were added, the prefix grew by a line, and the
\* check after it reported errors.
C5_Witness ==
    /\ Cardinality(ctxt.uses) = 2
    /\ ctxt.result.errors # {}
    /\ fix_pc # "panic"

\* ------------------------------------------------------------------------
\* Properties of the typedef-alias copy
\* ------------------------------------------------------------------------
\* The writer section inserts the result of typedef n, an alias of a struct.
AliasCommitted(n) ==
    /\ phase = "type"
    /\ n \in DOMAIN futures
    /\ struct_alias[n] # 0
    /\ n \notin DOMAIN translated_types
    /\ n \in DOMAIN translated_types'

\* C11: the result committed for a typedef that aliases a translated struct
\* comes from a task that never asked the LLM or the compiler (it is still
\* in its first poll, and the repair state is untouched), has copied = true
\* and the items of the struct's result, and its commit leaves the emitted
\* program, which is also the checking prefix of later tasks, unchanged.
C11_AliasCopied ==
    [][\A n \in 1..MaxNodes :
          AliasCommitted(n) =>
              /\ futures[n].pc = "created"
              /\ fixv' = fixv
              /\ translated_types'[n].copied
              /\ translated_types'[n].items =
                     translated_types[struct_alias[n]].items
              /\ Code' = Code]_vars

\* C11 witness: the schedulers have returned with the copy of a struct's
\* result of two items in the store.
C11_Witness ==
    /\ phase = "finished"
    /\ \E n \in DOMAIN translated_types :
          /\ translated_types[n].copied
          /\ Len(translated_types[n].items) = 2

\* ------------------------------------------------------------------------
\* Properties of the derives
\* ------------------------------------------------------------------------
TypeIndexes == {i \in DOMAIN type_items : IsType(type_items[i])}

\* C12: once the derives are attached, and so in every result that
\* translate_type returns, a union carries only Clone and Copy, a typedef
\* carries no derive, and a struct carries only derives of the list of nine.
C12_DeriveSets ==
    derive_pc # "attach" =>
        \A i \in TypeIndexes :
            LET t == type_items[i]
            IN  /\ t.type_sort = "Union" => t.derives \subseteq {"Clone", "Copy"}
                /\ t.type_sort = "Typedef" => t.derives = {}
                /\ t.type_sort = "Struct" =>
                      t.derives \subseteq
                          {"Clone", "Copy", "Debug", "Default", "PartialOrd",
                           "Ord", "PartialEq", "Eq", "Hash"}

\* C12 witness: a result is returned in which one union kept Clone and
\* Copy and the other lost Copy.
C12_Witness ==
    /\ derive_pc = "returned"
    /\ Len(type_items) = 2
    /\ type_items[1].derives = {"Clone", "Copy"}
    /\ type_items[2].derives = {"Clone"}

DeriveEnded == derive_pc \in {"returned", "panic"}

\* C13: for every answer check_derive may give (derives that the named
\* item carries), remove_wrong_derives ends; an item loses derives in at
\* most 9 rounds; and a round never adds a derive to an item.
C13_RoundsBounded ==
    \A i \in DOMAIN type_items : derive_rounds[i] <= 9

C13_OnlyRemoves ==
    derive_pc = "check" =>
        \A i \in DOMAIN type_items :
            type_items'[i].derives \subseteq type_items[i].derives

CleanResult ==
    [some |-> TRUE, errors |-> {}, uses |-> {}, suggestions |-> "none"]

\* C15: when the first check of the candidate passes, the repair leaves
\* the candidate code as it was, makes no LLM fix call, does not abort and
\* keeps a result without errors.
C15_PassingUntouched ==
    fix_log.first \in {"passed", "clean"} =>
        /\ ctxt.code = "c0"
        /\ fix_log.rounds = 0
        /\ fix_pc # "panic"
        /\ Passed(ctxt.result)

\* C15 as amended: when the first check of the candidate passes and comes
\* with no suggestion and no import hint, the repair goes straight to its
\* end: the context keeps its code, its uses and the result of that first
\* check (no other check is made), and no LLM fix call is made.
C15_CleanUntouched ==
    fix_log.first = "clean" =>
        /\ ctxt = [uses |-> {}, code |-> "c0", result |-> CleanResult]
        /\ fix_log.rounds = 0
        /\ fix_pc \in {"compiler", "llm", "done", "returned"}

\* C15 witness: fix_by_llm ran on a candidate whose first check was clean,
\* and the translator returned.
C15_Witness ==
    /\ fix_log.first = "clean"
    /\ phase = "function" /\ config.fix_errors
    /\ fix_pc = "returned"

AfterRepair == fix_pc \in {"done", "returned", "dropped"}

\* C18: with fix_errors off, a variable or a function candidate comes out
\* of tier 1 and tier 2 (no suggestion left, no import to add), without an
\* LLM fix call, and the error count of the last check is recorded.
C18_OnlyTier3Skipped ==
    (phase # "type" /\ ~config.fix_errors /\ AfterRepair) =>
        /\ AtFixedPoint(ctxt)
        /\ fix_log.rounds = 0
        /\ fix_pc = "returned" => translation.errors = ErrorCount(ctxt)

\* C18 as amended: with fix_errors off, a variable or a function candidate
\* gets the first check of FixContext::new and nothing else: no suggestion
\* is applied, no import is added, no LLM fix call is made, and the result
\* gets the error count of that check and no uses.
C18_NoRepairAtAll ==
    (phase # "type" /\ ~config.fix_errors) =>
        /\ fix_pc \in {"new", "done", "returned", "dropped", "panic"}
        /\ ctxt.code = "c0"
        /\ ctxt.uses = {}
        /\ fix_log.rounds = 0
        /\ fix_pc = "returned" =>
              translation = [uses |-> {}, errors |-> ErrorCount(ctxt)]

\* C18 witness: a variable is returned with two errors recorded and the
\* compiler's suggestions and hints unused.
C18_Witness ==
    /\ phase = "variable" /\ ~config.fix_errors
    /\ fix_pc = "returned"
    /\ translation.errors = 2
    /\ ctxt.result.uses # {}

\* The state in which fix_by_llm returns: tier 1 and tier 2 are at their
\* fixed point and no error is left whose message has not failed.
RepairComplete(c) ==
    /\ AtFixedPoint(c)
    /\ c.result.some => {e.message : e \in c.result.errors} \subseteq failed

\* C19: whatever fix_errors says, a type comes out of the whole of
\* fix_by_llm, and translate_type returns only when the last check passed;
\* it aborts otherwise.
C19_TypeRepaired ==
    phase = "type" =>
        /\ AfterRepair => RepairComplete(ctxt)
        /\ fix_pc = "returned" =>
              Passed(ctxt.result) /\ translation.errors = 0

C19_AbortsUnlessPassed ==
    (phase = "type" /\ fix_pc = "done" /\ ~Passed(ctxt.result)) =>
        fix_pc' = "panic"

C19_TypesAlwaysRepair ==
    [](C19_TypeRepaired) /\ [][C19_AbortsUnlessPassed]_vars

\* C19 witness: with fix_errors off, a type is returned after a round of
\* LLM fixes.
C19_Witness ==
    /\ phase = "type" /\ ~config.fix_errors
    /\ fix_pc = "returned"
    /\ fix_log.rounds >= 1


\* ------------------------------------------------------------------------
\* Properties of the rounds of fix_by_llm
\* ------------------------------------------------------------------------
\* The step that ends a round: join_all has returned.
EndsRound == fix_pc = "join" /\ fix_pc' \in {"llm", "done"}

\* A step of a run of fix_by_llm after its first fix_by_compiler.
InRounds == fix_pc \in {"llm", "join", "c_compiler"}

\* C24, the end of a round: the context is replaced only by a candidate
\* with strictly fewer errors, which no result of the round beats; when no
\* result decreased the count the context stays, every message attempted
\* is failed and the loop ends.
C24_RoundChoice ==
    EndsRound =>
        /\ ctxt' # ctxt =>
              /\ ctxt'.result.some
              /\ ErrorCount(ctxt') < round.current_errors
              /\ \A k \in round.counts : ErrorCount(ctxt') <= k
        /\ (\E k \in round.counts : k < round.current_errors) =>
              (ctxt' # ctxt /\ fix_pc' = "llm")
        /\ (\A k \in round.counts : k >= round.current_errors) =>
              /\ ctxt' = ctxt
              /\ fix_pc' = "done"
              /\ Msgs(ctxt.result, failed) \subseteq failed'

\* C24, every step of the rounds: the error count of the context never
\* increases.
C24_NeverIncreases ==
    (InRounds /\ ctxt.result.some /\ fix_pc' # "panic") =>
        (ctxt'.result.some /\ ErrorCount(ctxt') <= ErrorCount(ctxt))

\* C24: in every tier-3 round the context is replaced only by a strictly
\* better candidate, the best of the round; without one the attempted
\* messages are failed and the loop ends; the error count never increases.
C24_StrictlyBetterOrStop == [][C24_RoundChoice /\ C24_NeverIncreases]_vars

\* C24 witness: a round saw two results, one with fewer errors than the
\* context and one without.
C24_Witness ==
    /\ fix_pc = "join" /\ round.todo = {}
    /\ round.best_msg # "none"
    /\ round.failures # {}
    /\ Cardinality(round.counts) = 2

\* C25, every state of a round: no message asked for, or still to ask
\* for, is in the failed set.
C25_FailedNotAsked ==
    fix_pc \in {"join", "c_compiler"} =>
        (round.todo \cup ({round.msg} \ {"none"})) \cap failed = {}

\* C25, every step: the failed set only grows, and a round starts with the
\* distinct messages of the errors present that are not in it.
C25_FailedGrows ==
    /\ InRounds => failed \subseteq failed'
    /\ (fix_pc = "llm" /\ fix_pc' = "join") =>
          round'.todo = {m \in Messages :
                            /\ \E e \in ctxt.result.errors : e.message = m
                            /\ m \notin failed}

\* C25: within one run of fix_by_llm the failed set only grows and no LLM
\* fix call is made for a message in it: a round asks for exactly the
\* distinct messages present that have not failed.
C25_FailedMessagesSkipped == [](C25_FailedNotAsked) /\ [][C25_FailedGrows]_vars

\* C25 witness: a later round starts while a message of the context's
\* errors is in the failed set.
C25_Witness ==
    /\ fix_pc = "join"
    /\ fix_log.rounds >= 2
    /\ \E e \in ctxt.result.errors : e.message \in failed

\* ------------------------------------------------------------------------
\* Properties of add_uses
\* ------------------------------------------------------------------------
\* C27: add_uses adds a hint if and only if it is no glob, no brace group,
\* and no import of the use set at the moment the hint is considered, the
\* hints added before it from the same batch included, has the same tail
\* identifier; so no step of it puts an import into the use set that
\* shares its tail identifier with another import of the set.
C27_NoSharedTail ==
    \A c \in {ctxt, cand} :
        \A u \in c.uses : \A v \in c.uses :
            u # v => GetName(u) # GetName(v)

\* ------------------------------------------------------------------------
\* Properties of the name registry
\* ------------------------------------------------------------------------
Injective(map) ==
    \A a \in DOMAIN map : \A b \in DOMAIN map : a # b => map[a] # map[b]

\* C16: after translate_names no two C types have the same target name and
\* no two C identifiers (globals and functions together) have the same
\* target name, whatever the LLM answered.
C16_InjectiveRegistry ==
    names_pc = "done" => Injective(new_type_names) /\ Injective(new_term_names)

\* C17: after translate_names no function is stored as "main" (a proposed
\* "main" is stored as "my_main"), no type is stored as "Option" (a
\* proposed "Option" is stored as "MyOption"), and every other proposed
\* name, the names of the variables included, is stored as proposed.
C17_ReservedNamesPrefixed ==
    names_pc = "done" =>
        /\ DOMAIN new_type_names = custom_types
        /\ DOMAIN new_term_names = variables \cup functions
        /\ \A ty \in custom_types :
              /\ new_type_names[ty] # "Option"
              /\ new_type_names[ty] =
                    IF proposed.types[ty] = "Option" THEN "MyOption"
                    ELSE proposed.types[ty]
        /\ \A f \in functions :
              /\ new_term_names[f] # "main"
              /\ new_term_names[f] =
                    IF proposed.functions[f] = "main" THEN "my_main"
                    ELSE proposed.functions[f]
        /\ \A v \in variables : new_term_names[v] = proposed.variables[v]

C17_Witness ==
    /\ names_pc = "done"
    /\ \E ty \in custom_types :
          proposed.types[ty] = "Option" /\ new_type_names[ty] = "MyOption"
    /\ \E f \in functions :
          proposed.functions[f] = "main" /\ new_term_names[f] = "my_main"
    /\ \E g \in functions :
          proposed.functions[g] = "my_main" /\ new_term_names[g] = "my_main"
    /\ \E v \in variables : new_term_names[v] = "main"


\* ------------------------------------------------------------------------
\* Properties of translate_function
\* ------------------------------------------------------------------------
\* C20: with try_multiple_signatures off, translate_function keeps one
\* candidate signature and makes one try_signature call per sweep.
C20_OneSignatureWhenDisabled ==
    ~config.try_multiple_signatures =>
        /\ Cardinality(DOMAIN sig_map) <= 1
        /\ sig_log.first <= 1
        /\ sig_log.second <= 1

\* ------------------------------------------------------------------------
\* Properties of the tasks in flight and of the writer section
\* ------------------------------------------------------------------------
\* The ids that n reaches in g by at most k dependency edges.
RECURSIVE DepsWithin(_, _, _)
DepsWithin(g, n, k) ==
    IF k = 0 THEN {}
    ELSE g[n] \cup UNION {DepsWithin(g, m, k - 1) : m \in g[n]}

\* n depends on m in g, directly or transitively.
DependsOn(g, n, m) == m \in DepsWithin(g, n, Cardinality(DOMAIN g))

HoldsPrefix(fs, n) == n \in DOMAIN fs /\ fs[n].pc \in {"signed", "repairing"}

\* C22 as stated: the checking prefix a task repairs against is the
\* program text of the moment the task was launched.
C22_SnapshotAtLaunch ==
    \A n \in DOMAIN futures :
        HoldsPrefix(futures, n) => futures[n].prefix = futures[n].launched

\* C22, the step that takes the prefix: it is the program text of that
\* moment, commits made since the launch included.
C22_TakenFromState ==
    \A n \in DOMAIN futures :
        (~HoldsPrefix(futures, n) /\ HoldsPrefix(futures', n)) =>
            futures'[n].prefix = Code

\* C22, every later step: the prefix a task holds never changes while the
\* task is in flight, whatever the other tasks commit.
C22_PrefixFrozen ==
    \A n \in DOMAIN futures :
        (HoldsPrefix(futures, n) /\ n \in DOMAIN futures') =>
            futures'[n].prefix = futures[n].prefix

\* C22: the checking prefix of a task is a snapshot of the program text
\* taken when the task builds its repair context, after its first LLM
\* answer; from then on no commit of another task changes it.
C22_SnapshotAtFirstAnswer == [][C22_TakenFromState /\ C22_PrefixFrozen]_vars

\* C22 witness: a task holds a prefix that is no longer the program text,
\* another task having committed since.
C22_Witness ==
    \E n \in DOMAIN futures :
        HoldsPrefix(futures, n) /\ futures[n].prefix # Code

\* All the results in the three stores.
StoredResults ==
    UNION {{StoreOf(k)[n] : n \in DOMAIN StoreOf(k)} : k \in Kinds}

\* The names of the items of r that are types (type_sort) or are not.
NamesOfSort(r, type_sort) ==
    {r.items[i].name : i \in {j \in DOMAIN r.items :
                                (r.items[j].sort = "Type") = type_sort}}

\* C21: a commit is atomic over items and uses: in every state a task can
\* observe, the recorded type names, term names and uses are exactly those
\* of the results in the stores (and the initial uses), never those of a
\* result not yet inserted, and no result is stored without them.
C21_CommitAtomic ==
    /\ translated_type_names = UNION {NamesOfSort(r, TRUE) : r \in StoredResults}
    /\ translated_term_names = UNION {NamesOfSort(r, FALSE) : r \in StoredResults}
    /\ uses = InitialUses \cup UNION {r.uses : r \in StoredResults}

\* C21 witness: a result with a use and two items is stored while another
\* task is in flight.
C21_Witness ==
    /\ futures # <<>>
    /\ \E r \in StoredResults : r.uses # {} /\ Len(r.items) = 2

\* The collected candidates with the fewest errors.
MinCollected ==
    {i \in DOMAIN sig_log.collected :
        \A j \in DOMAIN sig_log.collected :
            sig_log.collected[i].errors <= sig_log.collected[j].errors}

\* C28, the states with a winner: the result is signature_only, and so is
\* every collected candidate, exactly when the second sweep was run.
C28_MarkedIffSecondSweep ==
    sig_pc \in {"compare", "returned"} =>
        /\ best_cand.signature_only = sig_log.swept_twice
        /\ \A i \in DOMAIN sig_log.collected :
              sig_log.collected[i].signature_only = sig_log.swept_twice

\* C28, the steps: the second sweep is run exactly when the first gave no
\* candidate, and translate_function aborts exactly when the second gave
\* none either.
C28_SweepSteps ==
    /\ (sig_pc = "first" /\ sig_pc' # "first") =>
          /\ (sig_pc' = "second") = (sig_log'.collected = <<>>)
          /\ ~sig_log'.swept_twice
          /\ sig_log'.second = 0
    /\ (sig_pc = "second" /\ sig_pc' # "second") =>
          /\ sig_log.collected = <<>>
          /\ sig_log'.swept_twice
          /\ (sig_pc' = "panic") = (sig_log'.collected = <<>>)

\* C28: a function's result is signature_only if and only if the first
\* sweep gave no candidate; the second sweep is run only then, marks all
\* its results, and translate_function aborts when it gives none either.
C28_SignatureOnlyIffRetried ==
    [](C28_MarkedIffSecondSweep) /\ [][C28_SweepSteps]_vars

\* C28 witness: translate_function has returned a signature_only result
\* out of two candidates of the second sweep.
C28_Witness ==
    /\ sig_pc = "returned"
    /\ best_cand.signature_only
    /\ Len(sig_log.collected) = 2

\* C29, the result: it is one of the collected candidates, none of them
\* has fewer errors, and with k candidates of the fewest errors k - 1
\* compare calls were made.
C29_Returned ==
    sig_pc = "returned" =>
        /\ \E i \in MinCollected : sig_log.collected[i] = best_cand
        /\ sig_log.compares = Cardinality(MinCollected) - 1

\* C29, a compare call: the next candidate against the current winner,
\* one of which is the winner afterwards.
C29_CompareStep ==
    sig_log'.compares # sig_log.compares =>
        /\ sig_log'.compares = sig_log.compares + 1
        /\ candidates # <<>>
        /\ best_cand' \in {best_cand, Head(candidates)}
        /\ candidates' = Tail(candidates)

\* C29: the result of translate_function is a collected candidate with the
\* minimum error count, whatever compare answers, and k candidates with
\* that count cost exactly k - 1 compare calls, the winner against the next.
C29_MinimumWins == [](C29_Returned) /\ [][C29_CompareStep]_vars

\* C29 witness: a result that won a compare call against the first of two
\* candidates with the fewest errors, a third candidate having more.
C29_Witness ==
    /\ sig_pc = "returned"
    /\ Len(sig_log.collected) = 3
    /\ Cardinality(MinCollected) = 2
    /\ \E i \in MinCollected : \E j \in MinCollected :
          i < j /\ best_cand = sig_log.collected[j]

\* The lines of the answer that parse to the function.
FnLines == {i \in DOMAIN sigs : sigs[i].form = "fn"}

\* C30: once the signature phase is over, each shape kept stands for the
\* first line of the answer with that shape; when some shape of the answer
\* has no more parameters than the C function, the shapes kept are those
\* with no more parameters than it, and else every shape of the answer.
C30_OnePerShapeFaithfulArity ==
    sig_pc \in {"first", "second", "compare", "returned"} =>
        LET shapes == {sigs[i].ty : i \in FnLines}
            within == {ty \in shapes : ParamsLen(ty) <= func_params}
        IN  /\ DOMAIN sig_map = IF within # {} THEN within ELSE shapes
            /\ \A ty \in DOMAIN sig_map :
                  \E i \in FnLines :
                      /\ sigs[i].ty = ty
                      /\ sigs[i].text = sig_map[ty]
                      /\ \A j \in FnLines : sigs[j].ty = ty => i <= j

\* C30 witness: the answer has two different lines of one shape, and a
\* shape with more parameters than the C function that was dropped.
C30_Witness ==
    /\ sig_pc = "first"
    /\ \E i \in FnLines : \E j \in FnLines :
          i < j /\ sigs[i].ty = sigs[j].ty /\ sigs[i].text # sigs[j].text
    /\ \E i \in FnLines : sigs[i].ty \notin DOMAIN sig_map

\* ------------------------------------------------------------------------
\* Properties of a fix future
\* ------------------------------------------------------------------------
\* C26: a reply is accepted as a candidate only if every protected name
\* reappears among the items kept, so the names a candidate defines are
\* the protected names and the assertion on the names after the repair
\* never fails.
C26_NamesPreserved ==
    /\ reply_pc = "candidate" =>
          {fixed_items[i] : i \in DOMAIN fixed_items} = protected_names
    /\ reply_pc # "panic"

\* ------------------------------------------------------------------------
\* Properties of translate_variable
\* ------------------------------------------------------------------------
\* C31, the calls: at most two are made, the first with the initializer;
\* the second is made exactly after a failure of the first, with the
\* initializer stripped, and its failure aborts.
C31_Calls ==
    /\ Len(var_calls) <= 2
    /\ Len(var_calls) >= 1 => ~var_calls[1].stripped
    /\ (Len(var_calls) = 1 /\ ~var_calls[1].ok) => var_pc = "second"
    /\ Len(var_calls) = 2 =>
          /\ ~var_calls[1].ok
          /\ var_calls[2].stripped
          /\ ~var_calls[2].ok => var_pc = "panic"

\* C31: the result of a variable is signature_only if and only if the
\* first call, with the full initializer, failed; then exactly one more
\* call was made, with the initializer stripped, and the failure of that
\* call aborts the run instead of giving a result.
C31_SignatureOnlyIffFirstFailed ==
    /\ C31_Calls
    /\ var_pc = "returned" =>
          /\ var_result.signature_only = ~var_calls[1].ok
          /\ Len(var_calls) = IF var_result.signature_only THEN 2 ELSE 1
          /\ var_calls[Len(var_calls)].ok

\* C31 witness: a variable is returned signature_only, with an error left.
C31_Witness ==
    /\ var_pc = "returned"
    /\ var_result.signature_only
    /\ var_result.errors > 0
    /\ Len(var_calls) = 2

====
